---- MODULE Spec2Model ----
(***************************************************************************)
(* Reservation / seat-lock state machine of BOOK-YOU-SHOW-SERVER.          *)
(*                                                                         *)
(* The store (MongoDB) executes one query or update atomically per         *)
(* document set; every `await` of a handler is a scheduling point.  Each   *)
(* action below is one store operation of a handler together with the      *)
(* synchronous code that follows it up to the next await.                  *)
(***************************************************************************)
EXTENDS Integers, Sequences, FiniteSets, TLC

(***************************************************************************)
(* Bounds                                                                  *)
(***************************************************************************)
MaxTime == 2
HoldSeconds == 1

Seats == {"A1", "A2"}
ForeignSeat == "Z9"

\* one process per call; a creator's own name is the uuid of its reservation
Creators == {"r1", "r2", "r3"}
Payers == {"p1", "p2"}
Confirmers == {"k1", "k2"}
Cancellers == {"x1", "x2"}
Callbacks == {"b1", "b2"}
ConfFrames == Confirmers \cup Callbacks
CancelFrames == Cancellers \cup ConfFrames
NoRes == "none"
NoPid == 0

(***************************************************************************)
(* Enumerations of the schemas                                             *)
(***************************************************************************)
AVAILABLE == "available"
PAYMENT_PENDING == "payment_pending"
BOOKED == "booked"
BROKEN == "broken"
AISLE == "aisle"
BLOCKED == "blocked"
SeatState == {AVAILABLE, PAYMENT_PENDING, BOOKED, BROKEN, AISLE, BLOCKED}

PENDING_PAYMENT == "pending_payment"
COMPLETED == "completed"
CANCELLED == "cancelled"
ReservationStatus == {PENDING_PAYMENT, COMPLETED, CANCELLED}

CART_TO_PAYMENT == -1
IN_PAYMENT_GATEWAY == -2
TIMEOUT == -3
PAYMENT_SUCCESS == 1
ReservationNumericState == {CART_TO_PAYMENT, IN_PAYMENT_GATEWAY, TIMEOUT, PAYMENT_SUCCESS}

VARIABLES
  now,      \* wall clock (new Date())
  seat,     \* Seat collection: seat id -> [state, pend]
  lock,     \* SeatLock collection: reservation id -> document or NoLock
  booking,  \* Booking collection: set of [id, rid, seat, pay]
  backup,   \* SeatLockBackup collection: reservation id -> payment id or 0
  issued,   \* transactions the gateway created: set of [pid, rid]
  cr,       \* createReservation calls
  pay,      \* createPaymentIntent calls
  cf,       \* confirmBooking frames (direct calls and calls of the callback)
  cn,       \* cancelReservation frames (direct calls and calls of confirmBooking)
  sw,       \* the expiry sweeper
  cb,       \* handleDialogGenieCallback calls
  pricing   \* price fields of the Event document and of its Seat documents

store == <<seat, lock, booking, backup, issued>>
procs == <<cr, pay, cf, cn, sw, cb>>
vars == <<now, seat, lock, booking, backup, issued, cr, pay, cf, cn, sw, cb, pricing>>

NoLock == [exists |-> FALSE]

(***************************************************************************)
(* Prices.  Amounts are carried in units of 1/Scale so that the child      *)
(* multiplier 0.5, the average seat price and a percentage commission stay *)
(* whole numbers.                                                          *)
(***************************************************************************)
Scale == 4 * 100
TicketTypeNames == {"VIP"}
NoType == "none"
AgeClasses == {"adult", "child"}
NoTicketType == [defined |-> FALSE, adultPrice |-> 0, childPrice |-> 0]
NoCommission == [type |-> "none", value |-> 0]

\* an event with a default price only, seats without ticket type or basePrice
PlainPricing ==
  [defaultPrice |-> 4,
   ticketTypes |-> [n \in TicketTypeNames |-> NoTicketType],
   commission |-> NoCommission,
   ticketType |-> [s \in Seats |-> NoType],
   basePrice |-> [s \in Seats |-> 0]]

\* ticket type price, else seat.basePrice when positive, else event.defaultPrice
SeatPrice(ev, s, age) ==
  IF ev.ticketType[s] # NoType /\ ev.ticketTypes[ev.ticketType[s]].defined
    THEN IF age = "adult" THEN ev.ticketTypes[ev.ticketType[s]].adultPrice
                          ELSE ev.ticketTypes[ev.ticketType[s]].childPrice
  ELSE IF ev.basePrice[s] > 0 THEN ev.basePrice[s]
  ELSE ev.defaultPrice

RECURSIVE SumOver(_, _)
SumOver(S, f) ==
  IF S = {} THEN 0
  ELSE LET s == CHOOSE x \in S : TRUE IN f[s] + SumOver(S \ {s}, f)

Commission(ev, subtotal, n) ==
  IF ev.commission.type = "none" THEN 0
  ELSE IF ev.commission.type = "percentage" THEN (subtotal * ev.commission.value) \div 100
  ELSE ev.commission.value * n * Scale

Summary(ev, subtotal, n) ==
  [subtotal |-> subtotal,
   commission |-> Commission(ev, subtotal, n),
   taxes |-> 0,
   total |-> subtotal + Commission(ev, subtotal, n) + 0]

\* every seat at its adult price; when the number of persons is positive and
\* differs from the number of seats, adults at the average seat price and
\* kids at half of it
calculateAmount(S, ev, adults, kids) ==
  LET n == Cardinality(S)
      baseSubtotal == SumOver(S, [s \in S |-> SeatPrice(ev, s, "adult") * Scale])
      adjustedSubtotal ==
        IF adults + kids > 0 /\ adults + kids # n
          THEN (baseSubtotal * (2 * adults + kids)) \div (2 * n)
          ELSE baseSubtotal
  IN Summary(ev, adjustedSubtotal, n)

\* seatAssignments: seat id -> "adult", "child" or NoType when the seat has
\* no assignment, which counts as adult
calculateAmountWithSeatAssignments(S, ev, seatAssignments) ==
  LET age(s) == IF seatAssignments[s] = NoType THEN "adult" ELSE seatAssignments[s]
      subtotal == SumOver(S, [s \in S |-> SeatPrice(ev, s, age(s)) * Scale])
  IN Summary(ev, subtotal, Cardinality(S))

(***************************************************************************)
(* Helpers on sequences and sets                                           *)
(***************************************************************************)
Range(f) == {f[x] : x \in DOMAIN f}

\* request bodies: seat id lists without repetition, the empty list, and a
\* list naming a seat of another event
SeatIdLists ==
  {<<a>> : a \in Seats} \cup
  {ids \in {<<a, b>> : a \in Seats, b \in Seats} : ids[1] # ids[2]}

BadSeatIdLists == {<< >>, <<ForeignSeat>>}

(***************************************************************************)
(* Seat store: SeatsService                                                *)
(***************************************************************************)
\* mutant: the filter of setSeatsToPaymentPending used for the lock
LockMatchesHeld(st, s) == st[s].state \in {AVAILABLE, PAYMENT_PENDING}

\* the per-seat conditional update of atomicLockSeats
LockMatches(st, s) == st[s].state = AVAILABLE

\* mutant: the update is applied without the filter on the state
LockOneSeatBlind(st, s, r) ==
  [st EXCEPT ![s] = [state |-> PAYMENT_PENDING, pend |-> r]]

LockOneSeat(st, s, r) ==
  IF LockMatches(st, s)
    THEN [st EXCEPT ![s] = [state |-> PAYMENT_PENDING, pend |-> r]]
    ELSE st

\* mutant: the rollback leaves the reservation id on the seat
RollbackKeepsId(st, S) ==
  [s \in Seats |-> IF s \in S THEN [st[s] EXCEPT !.state = AVAILABLE] ELSE st[s]]

\* the rollback updateMany of atomicLockSeats
RollbackSeats(st, S) ==
  [s \in Seats |-> IF s \in S THEN [state |-> AVAILABLE, pend |-> NoRes] ELSE st[s]]

\* mutant: the confirm filter does not look at pendingReservationId
ConfirmMatchesAnyHolder(st, S, r) ==
  {s \in S : st[s].state = PAYMENT_PENDING}

ConfirmMatches(st, S, r) ==
  {s \in S : st[s].state = PAYMENT_PENDING /\ st[s].pend = r}

atomicConfirmSeats(st, S, r) ==
  [s \in Seats |-> IF s \in ConfirmMatches(st, S, r)
                     THEN [state |-> BOOKED, pend |-> NoRes] ELSE st[s]]

setSeatsToPaymentPending(st, S, r) ==
  [s \in Seats |-> IF s \in S /\ st[s].state \in {AVAILABLE, PAYMENT_PENDING}
                     THEN [state |-> PAYMENT_PENDING, pend |-> r] ELSE st[s]]

\* mutant: the release sets the state and leaves pendingReservationId
ReleaseKeepsId(st, r) ==
  [s \in Seats |-> IF st[s].pend = r /\ st[s].state = PAYMENT_PENDING
                     THEN [state |-> AVAILABLE, pend |-> r] ELSE st[s]]

releaseSeatsByReservation(st, r) ==
  [s \in Seats |-> IF st[s].pend = r /\ st[s].state = PAYMENT_PENDING
                     THEN [state |-> AVAILABLE, pend |-> NoRes] ELSE st[s]]

(***************************************************************************)
(* BookingsService.createReservation                                       *)
(***************************************************************************)
CrIdle == [pc |-> "idle", seatIds |-> << >>, i |-> 0, locked |-> {},
           failed |-> {}, expiresAt |-> 0, res |-> "none"]

\* a finished call keeps its request and its response
CrDone(ids, failed, res) ==
  [CrIdle EXCEPT !.pc = "done", !.seatIds = ids, !.failed = failed, !.res = res]

\* validation, reservation id and expiry; nothing is written yet
\* mutant: the seats are not checked against the event before the lock
CreateStartUnchecked(p, Lists) ==
  /\ cr[p].pc = "idle"
  /\ \E ids \in Lists, saleEnabled \in BOOLEAN, inWindow \in BOOLEAN :
       cr' = [cr EXCEPT ![p] =
                IF Len(ids) > 0 /\ saleEnabled /\ inWindow
                  THEN [CrIdle EXCEPT !.pc = "lock", !.seatIds = ids, !.i = 1,
                                      !.expiresAt = now + HoldSeconds]
                  ELSE CrDone(ids, {}, "rejected")]
  /\ UNCHANGED <<now, seat, lock, booking, backup, issued, pay, cf, cn, sw, cb, pricing>>

CreateStart(p, Lists) ==
  /\ cr[p].pc = "idle"
  /\ \E ids \in Lists, saleEnabled \in BOOLEAN, inWindow \in BOOLEAN :
       LET ok == /\ Len(ids) > 0
                 /\ saleEnabled /\ inWindow
                 /\ Range(ids) \subseteq Seats
       IN cr' = [cr EXCEPT ![p] =
                   IF ok
                     THEN [CrIdle EXCEPT !.pc = "lock", !.seatIds = ids, !.i = 1,
                                         !.expiresAt = now + HoldSeconds]
                     ELSE CrDone(ids, {}, "rejected")]
  /\ UNCHANGED <<now, seat, lock, booking, backup, issued, pay, cf, cn, sw, cb, pricing>>

\* one iteration of the loop of atomicLockSeats; after the last one the
\* result is decided without a further await
LockStep(p) ==
  /\ cr[p].pc = "lock"
  /\ LET c == cr[p]
         s == c.seatIds[c.i]
         hit == LockMatches(seat, s)
         locked == IF hit THEN c.locked \cup {s} ELSE c.locked
         failed == IF hit THEN c.failed ELSE c.failed \cup {s}
         last == c.i = Len(c.seatIds)
     IN /\ seat' = LockOneSeat(seat, s, p)
        /\ cr' = [cr EXCEPT ![p] =
                    IF last /\ failed # {} /\ locked = {}
                      THEN CrDone(c.seatIds, failed, "contention")
                      ELSE [c EXCEPT !.locked = locked, !.failed = failed, !.i = c.i + 1,
                                     !.pc = IF ~last THEN "lock"
                                            ELSE IF failed = {} THEN "save"
                                            ELSE "rollback"]]
  /\ UNCHANGED <<now, lock, booking, backup, issued, pay, cf, cn, sw, cb, pricing>>

LockRollback(p) ==
  /\ cr[p].pc = "rollback"
  /\ seat' = RollbackSeats(seat, cr[p].locked)
  /\ cr' = [cr EXCEPT ![p] = CrDone(cr[p].seatIds, cr[p].failed, "contention")]
  /\ UNCHANGED <<now, lock, booking, backup, issued, pay, cf, cn, sw, cb, pricing>>

NewSeatLock(c) ==
  [exists |-> TRUE, seatIds |-> c.seatIds, status |-> PENDING_PAYMENT,
   numericState |-> CART_TO_PAYMENT, expiresAt |-> c.expiresAt,
   paymentIntentId |-> NoPid, phone |-> FALSE,
   amountSummary |-> calculateAmount(Range(c.seatIds), pricing, Len(c.seatIds), 0)]

CreateSave(p) ==
  /\ cr[p].pc = "save"
  /\ lock' = [lock EXCEPT ![p] = NewSeatLock(cr[p])]
  /\ cr' = [cr EXCEPT ![p] = CrDone(cr[p].seatIds, {}, "ok")]
  /\ UNCHANGED <<now, seat, booking, backup, issued, pay, cf, cn, sw, cb, pricing>>

\* seatLock.save() rejected by the store: the error is thrown again by the
\* catch of createReservation, the locked seats are left as they are
CreateSaveFails(p) ==
  /\ cr[p].pc = "save"
  /\ cr' = [cr EXCEPT ![p] = CrDone(cr[p].seatIds, {}, "save_error")]
  /\ UNCHANGED <<now, store, pay, cf, cn, sw, cb, pricing>>

(***************************************************************************)
(* Mongoose document.save(): only the paths whose value was changed since  *)
(* the document was loaded are written; the save of a document that is no  *)
(* longer in the collection fails and writes nothing.                      *)
(***************************************************************************)
SavePath(stored, loaded, mem, path) ==
  IF mem[path] # loaded[path] THEN mem[path] ELSE stored[path]

\* mutant: the save writes the whole in-memory copy
SaveDocWhole(stored, loaded, mem) == IF stored.exists THEN mem ELSE stored

SaveDoc(stored, loaded, mem) ==
  IF ~stored.exists THEN stored
  ELSE [stored EXCEPT
          !.status = SavePath(stored, loaded, mem, "status"),
          !.numericState = SavePath(stored, loaded, mem, "numericState"),
          !.paymentIntentId = SavePath(stored, loaded, mem, "paymentIntentId"),
          !.phone = SavePath(stored, loaded, mem, "phone"),
          !.amountSummary = SavePath(stored, loaded, mem, "amountSummary")]

\* save() of a document that is no longer in the collection throws
\* DocumentNotFoundError
SaveThrows(r) == ~lock[r].exists

BookingsOf(r) == {b \in booking : b.rid = r}
BookingIds(B) == {b.id : b \in B}

(***************************************************************************)
(* The clock                                                               *)
(***************************************************************************)
Tick ==
  /\ now < MaxTime
  /\ now' = now + 1
  /\ UNCHANGED <<store, procs, pricing>>

\* the TTL index of the SeatLock collection on expiresAt: the store deletes
\* a document some time after its expiresAt has passed
TtlDelete ==
  /\ \E r \in Creators :
       /\ lock[r].exists
       /\ lock[r].expiresAt < now
       /\ lock' = [lock EXCEPT ![r] = NoLock]
  /\ UNCHANGED <<now, seat, booking, backup, issued, procs, pricing>>

(***************************************************************************)
(* BookingsService.cancelReservation                                       *)
(***************************************************************************)
CnIdle == [pc |-> "idle", rid |-> NoRes, doc |-> NoLock]

\* findById
CancelLoaded(r) ==
  IF lock[r].exists
    THEN [pc |-> "release", rid |-> r, doc |-> lock[r]]
    ELSE [pc |-> "notfound", rid |-> r, doc |-> NoLock]

CnDone(r) == [pc |-> "done", rid |-> r, doc |-> NoLock]

CancelStart(k, r) ==
  /\ cn[k].pc = "idle"
  /\ cn' = [cn EXCEPT ![k] = CancelLoaded(r)]
  /\ UNCHANGED <<now, store, cr, pay, cf, sw, cb, pricing>>

\* the call made by confirmBooking for an expired reservation
CancelRead(k) ==
  /\ cn[k].pc = "read"
  /\ cn' = [cn EXCEPT ![k] = CancelLoaded(cn[k].rid)]
  /\ UNCHANGED <<now, store, cr, pay, cf, sw, cb, pricing>>

\* mutant: the release goes by the seat ids of the reservation, whoever holds them
CancelReleaseAnyHolder(k) ==
  /\ cn[k].pc = "release"
  /\ seat' = [s \in Seats |->
               IF /\ lock[cn[k].rid].exists
                  /\ s \in Range(lock[cn[k].rid].seatIds)
                  /\ seat[s].state = PAYMENT_PENDING
                 THEN [state |-> AVAILABLE, pend |-> NoRes] ELSE seat[s]]
  /\ cn' = [cn EXCEPT ![k].pc = "save"]
  /\ UNCHANGED <<now, lock, booking, backup, issued, cr, pay, cf, sw, cb, pricing>>

CancelRelease(k) ==
  /\ cn[k].pc = "release"
  /\ seat' = releaseSeatsByReservation(seat, cn[k].rid)
  /\ cn' = [cn EXCEPT ![k].pc = "save"]
  /\ UNCHANGED <<now, lock, booking, backup, issued, cr, pay, cf, sw, cb, pricing>>

CancelSave(k) ==
  /\ cn[k].pc = "save"
  /\ LET c == cn[k]
         mem == [c.doc EXCEPT !.status = CANCELLED]
     IN lock' = [lock EXCEPT ![c.rid] = SaveDoc(lock[c.rid], c.doc, mem)]
  /\ cn' = [cn EXCEPT ![k] =
              IF SaveThrows(cn[k].rid)
                THEN [pc |-> "failed", rid |-> cn[k].rid, doc |-> NoLock]
                ELSE CnDone(cn[k].rid)]
  /\ UNCHANGED <<now, seat, booking, backup, issued, cr, pay, cf, sw, cb, pricing>>

CancelFinished(k) == cn[k].pc \in {"done", "notfound", "failed"}

(***************************************************************************)
(* SeatLockExpiryService.checkExpiredReservations                          *)
(***************************************************************************)
SwIdle == [pc |-> "idle", queue |-> << >>]

CreatorOrder == <<"r1", "r2", "r3">>

\* mutant: the scan does not look at numericState
ExpiredAnyState(lk, t) ==
  /\ lk.exists
  /\ lk.status = PENDING_PAYMENT
  /\ lk.expiresAt < t

Expired(lk, t) ==
  /\ lk.exists
  /\ lk.status = PENDING_PAYMENT
  /\ lk.numericState = CART_TO_PAYMENT
  /\ lk.expiresAt < t

RECURSIVE ScanFrom(_)
ScanFrom(i) ==
  IF i > Len(CreatorOrder) THEN << >>
  ELSE LET r == CreatorOrder[i]
       IN IF Expired(lock[r], now)
            THEN <<[rid |-> r, doc |-> lock[r]]>> \o ScanFrom(i + 1)
            ELSE ScanFrom(i + 1)

SweepScan ==
  /\ sw.pc = "idle"
  /\ ScanFrom(1) # << >>
  /\ sw' = [pc |-> "release", queue |-> ScanFrom(1)]
  /\ UNCHANGED <<now, store, cr, pay, cf, cn, cb, pricing>>

SweepRelease ==
  /\ sw.pc = "release"
  /\ seat' = releaseSeatsByReservation(seat, Head(sw.queue).rid)
  /\ sw' = [sw EXCEPT !.pc = "save"]
  /\ UNCHANGED <<now, lock, booking, backup, issued, cr, pay, cf, cn, cb, pricing>>

SweepSave ==
  /\ sw.pc = "save"
  /\ LET e == Head(sw.queue)
         mem == [e.doc EXCEPT !.status = CANCELLED, !.numericState = TIMEOUT]
     IN lock' = [lock EXCEPT ![e.rid] = SaveDoc(lock[e.rid], e.doc, mem)]
  /\ sw' = IF Len(sw.queue) = 1 THEN SwIdle
           ELSE [pc |-> "release", queue |-> Tail(sw.queue)]
  /\ UNCHANGED <<now, seat, booking, backup, issued, cr, pay, cf, cn, cb, pricing>>

(***************************************************************************)
(* PaymentsService.createPaymentIntent                                     *)
(***************************************************************************)
\* UpdateTicketsDto: adults and kids, or per-seat assignments
EmptyDto == [adults |-> 0, kids |-> 0, seatAssignments |-> [s \in Seats |-> NoType]]

PayIdle == [pc |-> "idle", rid |-> NoRes, doc |-> NoLock, mem |-> NoLock,
            info |-> FALSE, phone |-> FALSE, pid |-> NoPid, res |-> "none",
            dto |-> EmptyDto]

PayDone(r, pid, res) == [PayIdle EXCEPT !.pc = "done", !.rid = r, !.pid = pid, !.res = res]

\* findById and the guards on the loaded document; customer: whether the
\* request carries customer information, givesPhone: whether the profile or
\* the customer information supplies a phone number
PayStart(k, r, customer, givesPhone) ==
  /\ pay[k].pc = "idle"
  /\ pay' = [pay EXCEPT ![k] =
       IF ~lock[r].exists
         THEN PayDone(r, NoPid, "notfound")
       ELSE IF lock[r].status # PENDING_PAYMENT
         THEN PayDone(r, NoPid, "bad_status")
       ELSE [PayIdle EXCEPT !.pc = "setpending", !.rid = r, !.doc = lock[r],
                            !.mem = lock[r], !.info = customer, !.phone = givesPhone]]
  /\ UNCHANGED <<now, store, cr, cf, cn, sw, cb, pricing>>

PaySetPending(k) ==
  /\ pay[k].pc = "setpending"
  /\ seat' = setSeatsToPaymentPending(seat, Range(pay[k].doc.seatIds), pay[k].rid)
  /\ pay' = [pay EXCEPT ![k].pc = "markpending"]
  /\ UNCHANGED <<now, lock, booking, backup, issued, cr, cf, cn, sw, cb, pricing>>

MarkBookings(B, r, state) ==
  {IF b.rid = r THEN [b EXCEPT !.pay = state] ELSE b : b \in B}

\* bookingModel.updateMany, then the gateway configuration is read
PayMarkPending(k) ==
  /\ pay[k].pc = "markpending"
  /\ booking' = MarkBookings(booking, pay[k].rid, "pending")
  /\ \E configured \in BOOLEAN :
       pay' = [pay EXCEPT ![k] =
                 IF ~configured THEN PayDone(pay[k].rid, NoPid, "not_configured")
                 ELSE IF pay[k].info THEN [pay[k] EXCEPT !.pc = "custsave"]
                 ELSE [pay[k] EXCEPT !.pc = "gateway"]]
  /\ UNCHANGED <<now, seat, lock, backup, issued, cr, cf, cn, sw, cb, pricing>>

\* the customer information is saved on the seat lock
PayCustomerSave(k) ==
  /\ pay[k].pc = "custsave"
  /\ LET c == pay[k]
         mem == [c.mem EXCEPT !.phone = c.phone \/ c.mem.phone]
     IN /\ lock' = [lock EXCEPT ![c.rid] = SaveDoc(lock[c.rid], c.doc, mem)]
        /\ pay' = [pay EXCEPT ![k] =
                      IF SaveThrows(c.rid)
                        THEN PayDone(c.rid, NoPid, "save_error")
                        ELSE [c EXCEPT !.pc = "gateway", !.mem = mem, !.doc = mem]]
  /\ UNCHANGED <<now, seat, booking, backup, issued, cr, cf, cn, sw, cb, pricing>>

NewPid == Cardinality(issued) + 1

\* mutant: the state is advanced before the gateway is asked and stays so
PayGatewayAdvances(k) ==
  /\ pay[k].pc = "gateway"
  /\ \E answered \in BOOLEAN :
       IF answered
         THEN /\ issued' = issued \cup {[pid |-> NewPid, rid |-> pay[k].rid]}
              /\ pay' = [pay EXCEPT ![k].pc = "save", ![k].pid = NewPid]
              /\ lock' = lock
         ELSE /\ issued' = issued
              /\ pay' = [pay EXCEPT ![k] = PayDone(pay[k].rid, NoPid, "gateway_error")]
              /\ lock' = [lock EXCEPT ![pay[k].rid] =
                            IF @.exists THEN [@ EXCEPT !.numericState = IN_PAYMENT_GATEWAY]
                                        ELSE @]
  /\ UNCHANGED <<now, seat, booking, backup, cr, cf, cn, sw, cb, pricing>>

\* axios.post to the gateway: the request fails or the answer carries no
\* valid payment URL (the call throws), or the gateway creates a transaction
PayGateway(k) ==
  /\ pay[k].pc = "gateway"
  /\ \E answered \in BOOLEAN :
       IF answered
         THEN /\ issued' = issued \cup {[pid |-> NewPid, rid |-> pay[k].rid]}
              /\ pay' = [pay EXCEPT ![k].pc = "save", ![k].pid = NewPid]
         ELSE /\ issued' = issued
              /\ pay' = [pay EXCEPT ![k] = PayDone(pay[k].rid, NoPid, "gateway_error")]
  /\ UNCHANGED <<now, seat, lock, booking, backup, cr, cf, cn, sw, cb, pricing>>

PaySave(k) ==
  /\ pay[k].pc = "save"
  /\ LET c == pay[k]
         mem == [c.mem EXCEPT !.numericState = IN_PAYMENT_GATEWAY,
                              !.paymentIntentId = c.pid]
     IN /\ lock' = [lock EXCEPT ![c.rid] = SaveDoc(lock[c.rid], c.doc, mem)]
        /\ pay' = [pay EXCEPT ![k] =
                      IF SaveThrows(c.rid)
                        THEN PayDone(c.rid, c.pid, "save_error")
                        ELSE [c EXCEPT !.pc = "backup", !.mem = mem]]
  /\ UNCHANGED <<now, seat, booking, backup, issued, cr, cf, cn, sw, cb, pricing>>

\* seatLockBackupModel.create: a duplicate _id is rejected and only logged
PayBackup(k) ==
  /\ pay[k].pc = "backup"
  /\ backup' = IF backup[pay[k].rid] = NoPid
                 THEN [backup EXCEPT ![pay[k].rid] = pay[k].pid]
                 ELSE backup
  /\ pay' = [pay EXCEPT ![k] = PayDone(pay[k].rid, pay[k].pid, "ok")]
  /\ UNCHANGED <<now, seat, lock, booking, issued, cr, cf, cn, sw, cb, pricing>>

(***************************************************************************)
(* BookingsService.confirmBooking                                          *)
(***************************************************************************)
CfIdle == [pc |-> "idle", rid |-> NoRes, pid |-> NoPid, doc |-> NoLock,
           mem |-> NoLock, todo |-> {}, ids |-> {}, res |-> "none"]

\* a frame that returned (pc "ok"), threw (pc "err") or waits for the
\* cancelReservation it called (pc "cancel") keeps only its arguments and result
CfEnd(f, pc, ids, res) ==
  [CfIdle EXCEPT !.pc = pc, !.rid = f.rid, !.pid = f.pid, !.ids = ids, !.res = res]

\* mutant: the status of the reservation is not looked at
ConfirmGuardsAnyStatus(f, t) ==
  IF t > f.mem.expiresAt
    THEN CfEnd(f, "cancel", {}, "expired")
  ELSE [f EXCEPT !.pc = "seats"]

\* the guards after the already-confirmed branch: status, then expiry
ConfirmGuards(f, t) ==
  IF f.mem.status \notin {PENDING_PAYMENT, COMPLETED}
    THEN CfEnd(f, "err", {}, "bad_status")
  ELSE IF t > f.mem.expiresAt
    THEN CfEnd(f, "cancel", {}, "expired")
  ELSE [f EXCEPT !.pc = "seats"]

\* findById
ConfirmLoaded(r, pid) ==
  IF ~lock[r].exists
    THEN CfEnd([rid |-> r, pid |-> pid], "err", {}, "notfound")
  ELSE LET f == [CfIdle EXCEPT !.rid = r, !.pid = pid, !.doc = lock[r], !.mem = lock[r]]
       IN IF lock[r].status = COMPLETED
            THEN [f EXCEPT !.pc = "existing"]
            ELSE ConfirmGuards(f, now)

\* the frame of a cancelReservation called by frame k when f is its next state
CancelCall(f, old) ==
  IF f.pc = "cancel" THEN [pc |-> "read", rid |-> f.rid, doc |-> NoLock] ELSE old

ConfirmStart(k, r, pid) ==
  /\ cf[k].pc = "idle"
  /\ LET f == ConfirmLoaded(r, pid)
     IN /\ cf' = [cf EXCEPT ![k] = f]
        /\ cn' = [cn EXCEPT ![k] = CancelCall(f, @)]
  /\ UNCHANGED <<now, store, cr, pay, sw, cb, pricing>>

\* the call made by the payment callback
ConfirmRead(k) ==
  /\ cf[k].pc = "read"
  /\ LET f == ConfirmLoaded(cf[k].rid, cf[k].pid)
     IN /\ cf' = [cf EXCEPT ![k] = f]
        /\ cn' = [cn EXCEPT ![k] = CancelCall(f, @)]
  /\ UNCHANGED <<now, store, cr, pay, sw, cb, pricing>>

\* already COMPLETED: bookingModel.find({ reservationId })
ConfirmExisting(k) ==
  /\ cf[k].pc = "existing"
  /\ LET f == cf[k]
         ex == BookingsOf(f.rid)
         g == IF ex # {}
                THEN IF f.pid # NoPid /\ f.mem.paymentIntentId = NoPid
                       THEN [f EXCEPT !.pc = "savepid", !.ids = BookingIds(ex),
                                      !.mem = [f.mem EXCEPT !.paymentIntentId = f.pid]]
                       ELSE CfEnd(f, "ok", BookingIds(ex), "ok")
                ELSE ConfirmGuards(f, now)
     IN /\ cf' = [cf EXCEPT ![k] = g]
        /\ cn' = [cn EXCEPT ![k] = CancelCall(g, @)]
  /\ UNCHANGED <<now, store, cr, pay, sw, cb, pricing>>

ConfirmSavePid(k) ==
  /\ cf[k].pc = "savepid"
  /\ lock' = [lock EXCEPT ![cf[k].rid] = SaveDoc(lock[cf[k].rid], cf[k].doc, cf[k].mem)]
  /\ cf' = [cf EXCEPT ![k] =
              IF SaveThrows(cf[k].rid)
                THEN CfEnd(cf[k], "err", {}, "save_error")
                ELSE CfEnd(cf[k], "ok", cf[k].ids, "ok")]
  /\ UNCHANGED <<now, seat, booking, backup, issued, cr, pay, cn, sw, cb, pricing>>

\* atomicConfirmSeats and the comparison of its count with the seat count
ConfirmSeats(k) ==
  /\ cf[k].pc = "seats"
  /\ LET f == cf[k]
         S == Range(f.mem.seatIds)
         confirmedCount == Cardinality(ConfirmMatches(seat, S, f.rid))
     IN /\ seat' = atomicConfirmSeats(seat, S, f.rid)
        /\ cf' = [cf EXCEPT ![k] =
                    IF confirmedCount # Len(f.mem.seatIds)
                      THEN CfEnd(f, "err", {}, "mismatch")
                      ELSE [f EXCEPT !.pc = "save",
                              !.mem = [f.mem EXCEPT
                                         !.status = COMPLETED,
                                         !.paymentIntentId =
                                            IF f.pid # NoPid THEN f.pid ELSE @]]]
  /\ UNCHANGED <<now, lock, booking, backup, issued, cr, pay, cn, sw, cb, pricing>>

ConfirmSave(k) ==
  /\ cf[k].pc = "save"
  /\ lock' = [lock EXCEPT ![cf[k].rid] = SaveDoc(lock[cf[k].rid], cf[k].doc, cf[k].mem)]
  /\ cf' = [cf EXCEPT ![k] =
              IF SaveThrows(cf[k].rid)
                THEN CfEnd(cf[k], "err", {}, "save_error")
                ELSE [cf[k] EXCEPT !.pc = "recheck"]]
  /\ UNCHANGED <<now, seat, booking, backup, issued, cr, pay, cn, sw, cb, pricing>>

\* bookingModel.find({ reservationId }) before the bookings are created
ConfirmRecheck(k) ==
  /\ cf[k].pc = "recheck"
  /\ LET f == cf[k]
         ex == BookingsOf(f.rid)
     IN cf' = [cf EXCEPT ![k] =
                 IF ex # {}
                   THEN [f EXCEPT !.pc = "notify", !.ids = BookingIds(ex)]
                   ELSE [f EXCEPT !.pc = "create", !.todo = Range(f.mem.seatIds)]]
  /\ UNCHANGED <<now, store, cr, pay, cn, sw, cb, pricing>>

NewBooking(r, s) ==
  [id |-> Cardinality(booking) + 1, rid |-> r, seat |-> s, pay |-> "pending"]

\* one of the concurrent booking.save() of Promise.all
ConfirmCreate(k) ==
  /\ cf[k].pc = "create"
  /\ \E s \in cf[k].todo :
       LET b == NewBooking(cf[k].rid, s)
       IN /\ booking' = booking \cup {b}
          /\ cf' = [cf EXCEPT ![k].todo = @ \ {s},
                              ![k].ids = @ \cup {b.id},
                              ![k].pc = IF cf[k].todo = {s} THEN "notify" ELSE "create"]
  /\ UNCHANGED <<now, seat, lock, backup, issued, cr, pay, cn, sw, cb, pricing>>

\* the Firestore message and the SMS: they need the phone number of the
\* loaded seat lock and a working Firebase
ConfirmNotify(k) ==
  /\ cf[k].pc = "notify"
  /\ \E firebase \in BOOLEAN :
       cf' = [cf EXCEPT ![k] =
                IF cf[k].mem.phone /\ firebase
                  THEN CfEnd(cf[k], "ok", cf[k].ids, "ok")
                  ELSE CfEnd(cf[k], "err", {}, "notify")]
  /\ UNCHANGED <<now, store, cr, pay, cn, sw, cb, pricing>>

ConfirmFinished(k) ==
  \/ cf[k].pc \in {"ok", "err"}
  \/ cf[k].pc = "cancel" /\ CancelFinished(k)

ConfirmFailed(k) == ConfirmFinished(k) /\ cf[k].pc # "ok"

(***************************************************************************)
(* PaymentsService.handleDialogGenieCallback                               *)
(***************************************************************************)
CbIdle == [pc |-> "idle", pid |-> NoPid, verdict |-> "none", rid |-> NoRes,
           doc |-> NoLock, mem |-> NoLock, res |-> "none", local |-> NoRes]

CbDone(c, res) ==
  [CbIdle EXCEPT !.pc = "done", !.pid = c.pid, !.verdict = c.verdict, !.rid = c.rid,
                 !.res = res, !.local = c.local]

\* a record without paymentIntentId is matched by no payment id, the empty
\* one included
LocksWithPid(pid) ==
  {r \in Creators : pid # NoPid /\ lock[r].exists /\ lock[r].paymentIntentId = pid}
BackupsWithPid(pid) == {r \in Creators : pid # NoPid /\ backup[r] = pid}

\* where the handler goes once the seat lock is found
CbFound(c, r) ==
  [c EXCEPT !.rid = r, !.pc = IF c.verdict = "SUCCESS" THEN "reload" ELSE "markfailed"]

\* seatLockModel.findOne({ paymentIntentId })
CallbackStart(k, pid, verdict) ==
  /\ cb[k].pc = "idle"
  /\ pid # NoPid
  /\ LET c == [CbIdle EXCEPT !.pid = pid, !.verdict = verdict]
     IN cb' = [cb EXCEPT ![k] =
                 IF LocksWithPid(pid) # {}
                   THEN CbFound(c, CHOOSE r \in LocksWithPid(pid) : TRUE)
                   ELSE [c EXCEPT !.pc = "findbackup"]]
  /\ UNCHANGED <<now, store, cr, pay, cf, cn, sw, pricing>>

\* seatLockBackupModel.findOne({ paymentIntentId })
CallbackFindBackup(k) ==
  /\ cb[k].pc = "findbackup"
  /\ LET c == cb[k]
     IN cb' = [cb EXCEPT ![k] =
                 IF BackupsWithPid(c.pid) # {}
                   THEN [c EXCEPT !.pc = "findorig",
                                  !.rid = CHOOSE r \in BackupsWithPid(c.pid) : TRUE]
                   ELSE CbDone(c, "notfound")]
  /\ UNCHANGED <<now, store, cr, pay, cf, cn, sw, pricing>>

\* seatLockModel.findById(backupLock._id)
CallbackFindOriginal(k) ==
  /\ cb[k].pc = "findorig"
  /\ LET c == cb[k]
     IN cb' = [cb EXCEPT ![k] =
                 IF lock[c.rid].exists
                   THEN CbFound(c, c.rid)
                   ELSE CbDone(c, "notfound")]
  /\ UNCHANGED <<now, store, cr, pay, cf, cn, sw, pricing>>

\* STEP 2: the seat lock is reloaded, and numericState set on the copy
CallbackReload(k) ==
  /\ cb[k].pc = "reload"
  /\ LET c == cb[k]
     IN cb' = [cb EXCEPT ![k] =
                 IF lock[c.rid].exists
                   THEN [c EXCEPT !.pc = "savepaid", !.doc = lock[c.rid],
                                  !.mem = [lock[c.rid] EXCEPT !.numericState = PAYMENT_SUCCESS]]
                   ELSE CbDone(c, "error")]
  /\ UNCHANGED <<now, store, cr, pay, cf, cn, sw, pricing>>

\* STEP 3: save, then STEP 4 calls confirmBooking
CallbackSavePaid(k) ==
  /\ cb[k].pc = "savepaid"
  /\ lock' = [lock EXCEPT ![cb[k].rid] = SaveDoc(lock[cb[k].rid], cb[k].doc, cb[k].mem)]
  /\ IF SaveThrows(cb[k].rid)
       THEN /\ cb' = [cb EXCEPT ![k] = CbDone(cb[k], "error")]
            /\ cf' = cf
       ELSE /\ cb' = [cb EXCEPT ![k].pc = "confirm1", ![k].doc = NoLock, ![k].mem = NoLock]
            /\ cf' = [cf EXCEPT ![k] = [CfIdle EXCEPT !.pc = "read", !.rid = cb[k].rid,
                                                      !.pid = cb[k].pid]]
  /\ UNCHANGED <<now, seat, booking, backup, issued, cr, pay, cn, sw, pricing>>

\* confirmBooking returned: bookingModel.updateMany(paymentState success)
CallbackMarkSuccess(k) ==
  /\ cb[k].pc = "confirm1"
  /\ cf[k].pc = "ok"
  /\ booking' = MarkBookings(booking, cb[k].rid, "success")
  /\ cb' = [cb EXCEPT ![k] = CbDone(cb[k], "ok")]
  /\ UNCHANGED <<now, seat, lock, backup, issued, cr, pay, cf, cn, sw, pricing>>

\* confirmBooking threw: its error is kept to be thrown again; then
\* bookingModel.find, and with bookings present confirmBooking is called once
\* more
CallbackCatch(k) ==
  /\ cb[k].pc = "confirm1"
  /\ ConfirmFailed(k)
  /\ IF BookingsOf(cb[k].rid) # {}
       THEN /\ cb' = [cb EXCEPT ![k].pc = "confirm2", ![k].res = cf[k].res]
            /\ cf' = [cf EXCEPT ![k] = [CfIdle EXCEPT !.pc = "read", !.rid = cb[k].rid,
                                                      !.pid = cb[k].pid]]
            /\ cn' = [cn EXCEPT ![k] = CnIdle]
       ELSE /\ cb' = [cb EXCEPT ![k].pc = "markerr", ![k].res = cf[k].res]
            /\ UNCHANGED <<cf, cn, pricing>>
  /\ UNCHANGED <<now, store, cr, pay, sw, pricing>>

\* the payment state is updated all the same and the error is thrown again
CallbackMarkNoBookings(k) ==
  /\ cb[k].pc = "markerr"
  /\ booking' = MarkBookings(booking, cb[k].rid, "success")
  /\ cb' = [cb EXCEPT ![k] = CbDone(cb[k], cb[k].res)]
  /\ UNCHANGED <<now, seat, lock, backup, issued, cr, pay, cf, cn, sw, pricing>>

\* the same after the second confirmBooking, whose outcome is only logged
CallbackMarkAfterRetry(k) ==
  /\ cb[k].pc = "confirm2"
  /\ ConfirmFinished(k)
  /\ booking' = MarkBookings(booking, cb[k].rid, "success")
  /\ cb' = [cb EXCEPT ![k] = CbDone(cb[k], cb[k].res)]
  /\ UNCHANGED <<now, seat, lock, backup, issued, cr, pay, cf, cn, sw, pricing>>

\* mutant: a failed payment also gives the seats back and cancels
CallbackMarkFailedCancels(k) ==
  /\ cb[k].pc = "markfailed"
  /\ booking' = MarkBookings(booking, cb[k].rid, "failed")
  /\ seat' = releaseSeatsByReservation(seat, cb[k].rid)
  /\ lock' = [lock EXCEPT ![cb[k].rid] =
                IF @.exists THEN [@ EXCEPT !.status = CANCELLED] ELSE @]
  /\ cb' = [cb EXCEPT ![k] = CbDone(cb[k], "failed")]
  /\ UNCHANGED <<now, backup, issued, cr, pay, cf, cn, sw, pricing>>

\* FAILED verdict
CallbackMarkFailed(k) ==
  /\ cb[k].pc = "markfailed"
  /\ booking' = MarkBookings(booking, cb[k].rid, "failed")
  /\ cb' = [cb EXCEPT ![k] = CbDone(cb[k], "failed")]
  /\ UNCHANGED <<now, seat, lock, backup, issued, cr, pay, cf, cn, sw, pricing>>

(***************************************************************************)
(* PaymentsService.handleDialogGenieRedirect                               *)
(***************************************************************************)
\* seatLockModel.findOne({ paymentIntentId }) of the redirect
RedirectFound(c) ==
  IF LocksWithPid(c.pid) # {}
    THEN [c EXCEPT !.pc = "rdcall"]
    ELSE CbDone(c, "rd_notfound")

\* the query carries localId (the reservation id, or none), a payment id (or
\* none) and a status.  findById(localId) first; the payment id is saved on a
\* seat lock found without one.  local keeps the reservation found by localId
RedirectStart(k, localId, pid, verdict) ==
  /\ cb[k].pc = "idle"
  /\ LET c == [CbIdle EXCEPT !.pid = pid, !.verdict = verdict]
         lk == lock[localId]
     IN cb' = [cb EXCEPT ![k] =
                 IF localId # NoRes /\ lk.exists
                   THEN IF pid # NoPid /\ lk.paymentIntentId = NoPid
                          THEN [c EXCEPT !.pc = "rdsave", !.local = localId,
                                         !.doc = lk,
                                         !.mem = [lk EXCEPT !.paymentIntentId = pid]]
                          ELSE [c EXCEPT !.pc = "rdcall", !.local = localId,
                                         !.pid = IF pid # NoPid
                                                   THEN pid ELSE lk.paymentIntentId]
                 ELSE IF pid = NoPid THEN CbDone(c, "rd_notfound")
                 ELSE IF localId # NoRes THEN [c EXCEPT !.pc = "rdfind"]
                 ELSE RedirectFound(c)]
  /\ UNCHANGED <<now, store, cr, pay, cf, cn, sw, pricing>>

RedirectSave(k) ==
  /\ cb[k].pc = "rdsave"
  /\ lock' = [lock EXCEPT ![cb[k].local] = SaveDoc(lock[cb[k].local], cb[k].doc, cb[k].mem)]
  /\ cb' = [cb EXCEPT ![k] =
              IF SaveThrows(cb[k].local)
                THEN CbDone(cb[k], "error")
                ELSE [cb[k] EXCEPT !.pc = "rdcall", !.doc = NoLock, !.mem = NoLock]]
  /\ UNCHANGED <<now, seat, booking, backup, issued, cr, pay, cf, cn, sw, pricing>>

RedirectFind(k) ==
  /\ cb[k].pc = "rdfind"
  /\ cb' = [cb EXCEPT ![k] = RedirectFound(cb[k])]
  /\ UNCHANGED <<now, store, cr, pay, cf, cn, sw, pricing>>

\* handleDialogGenieCallback({ paymentId: finalPaymentId, status }): the seat
\* lock found by the redirect is not passed on, the callback searches again
\* by payment id
RedirectCall(k) ==
  /\ cb[k].pc = "rdcall"
  /\ cb' = [cb EXCEPT ![k] =
              IF LocksWithPid(cb[k].pid) # {}
                THEN CbFound(cb[k], CHOOSE r \in LocksWithPid(cb[k].pid) : TRUE)
                ELSE [cb[k] EXCEPT !.pc = "findbackup"]]
  /\ UNCHANGED <<now, store, cr, pay, cf, cn, sw, pricing>>

RedirectSteps(k) ==
  \/ RedirectSave(k)
  \/ RedirectFind(k)
  \/ RedirectCall(k)

(***************************************************************************)
(* SeatsService.updateSeats: the organizer's seat editor                    *)
(***************************************************************************)
\* one updateOne of updateSeats: { $set: seatData } of a seat that exists,
\* with a state in seatData
updateSeats(st, s, state) == [st EXCEPT ![s].state = state]

UpdateSeats ==
  /\ \E s \in Seats, state \in SeatState : seat' = updateSeats(seat, s, state)
  /\ UNCHANGED <<now, lock, booking, backup, issued, procs, pricing>>

(***************************************************************************)
(* Initial state: seats seeded available, no reservation                   *)
(***************************************************************************)
InitStore ==
  /\ now = 0
  /\ seat = [s \in Seats |-> [state |-> AVAILABLE, pend |-> NoRes]]
  /\ lock = [r \in Creators |-> NoLock]
  /\ booking = {}
  /\ backup = [r \in Creators |-> NoPid]
  /\ issued = {}
  /\ cr = [p \in Creators |-> CrIdle]
  /\ pay = [p \in Payers |-> PayIdle]
  /\ cf = [k \in ConfFrames |-> CfIdle]
  /\ cn = [k \in CancelFrames |-> CnIdle]
  /\ sw = SwIdle
  /\ cb = [k \in Callbacks |-> CbIdle]

Init == InitStore /\ pricing = PlainPricing

(***************************************************************************)
(* Concurrent holds: createReservation calls only                          *)
(***************************************************************************)
NextLock ==
  \E p \in Creators :
    \/ CreateStart(p, SeatIdLists \cup BadSeatIdLists)
    \/ LockStep(p)
    \/ LockRollback(p)
    \/ CreateSave(p)

SpecLock == Init /\ [][NextLock]_vars

Requested(p) == Range(cr[p].seatIds)
LockSucceeded(p) == cr[p].pc = "save" \/ cr[p].res = "ok"
LockFailed(p) == cr[p].res = "contention"
Free == [state |-> AVAILABLE, pend |-> NoRes]
HeldBy(r) == [state |-> PAYMENT_PENDING, pend |-> r]

\* C1: no double lock. Of the atomicLockSeats calls that request a seat s, at
\* most one returns success; the others fail.
C1_NoDoubleLock ==
  \A p \in Creators, q \in Creators :
    (p # q /\ LockSucceeded(p) /\ LockSucceeded(q)) => Requested(p) \cap Requested(q) = {}

\* two calls asked for the same seat; one acquired it and the other failed on it
C1_Witness ==
  \E p \in Creators, q \in Creators, s \in Seats :
    /\ p # q /\ s \in Requested(p) \cap Requested(q)
    /\ cr[p].res = "ok" /\ seat[s] = HeldBy(p)
    /\ LockFailed(q) /\ s \in cr[q].failed

OnlyCalls(p, q) == \A o \in Creators \ {p, q} : cr[o].pc = "idle"
Returned(p) == cr[p].pc = "done" /\ cr[p].res # "rejected"
Rejected(p, s) == LockFailed(p) /\ s \in cr[p].failed /\ ~lock[p].exists
Won(p, s) == cr[p].res = "ok" /\ lock[p].exists /\ seat[s] = HeldBy(p)

\* C7 as stated: of two createReservation calls that both request the same
\* available seat, exactly one succeeds and the other is rejected with that
\* seat in unavailableSeats
C7_ExactlyOneWins ==
  \A p \in Creators, q \in Creators, s \in Seats :
    (p # q /\ OnlyCalls(p, q) /\ Returned(p) /\ Returned(q)
       /\ s \in Requested(p) \cap Requested(q))
    => \/ Won(p, s) /\ Rejected(q, s)
       \/ Won(q, s) /\ Rejected(p, s)

\* C7 amended: at most one of the two calls succeeds, and then it holds the
\* seat and the other call is rejected; a rejected call creates no SeatLock
\* record and lists at least one seat in unavailableSeats, not always the
\* shared one. When both request that seat alone, exactly one succeeds and the
\* other is rejected with the seat in unavailableSeats.
C7_AtMostOneWins ==
  \A p \in Creators, q \in Creators, s \in Seats :
    (p # q /\ OnlyCalls(p, q) /\ Returned(p) /\ Returned(q)
       /\ s \in Requested(p) \cap Requested(q))
    => /\ ~(cr[p].res = "ok" /\ cr[q].res = "ok")
       /\ LockFailed(p) => (~lock[p].exists /\ cr[p].failed # {})
       /\ cr[p].res = "ok" => (Won(p, s) /\ LockFailed(q))
       /\ (cr[p].seatIds = <<s>> /\ cr[q].seatIds = <<s>>) =>
             (Won(p, s) /\ Rejected(q, s)) \/ (Won(q, s) /\ Rejected(p, s))

\* two single-seat calls for the same seat have both returned
C7_Witness ==
  \E p \in Creators, q \in Creators, s \in Seats :
    /\ p # q /\ OnlyCalls(p, q)
    /\ cr[p].seatIds = <<s>> /\ cr[q].seatIds = <<s>>
    /\ Won(p, s) /\ Rejected(q, s)

IssuedPids == {t.pid : t \in issued}

CreateSteps(p) == LockStep(p) \/ LockRollback(p) \/ CreateSave(p)

PaySteps(k) ==
  \/ PaySetPending(k)
  \/ PayMarkPending(k)
  \/ PayCustomerSave(k)
  \/ PayGateway(k)
  \/ PaySave(k)
  \/ PayBackup(k)

ConfirmSteps(k) ==
  \/ ConfirmRead(k)
  \/ ConfirmExisting(k)
  \/ ConfirmSavePid(k)
  \/ ConfirmSeats(k)
  \/ ConfirmSave(k)
  \/ ConfirmRecheck(k)
  \/ ConfirmCreate(k)
  \/ ConfirmNotify(k)

CancelSteps(k) == CancelRead(k) \/ CancelRelease(k) \/ CancelSave(k)

SweepSteps == SweepScan \/ SweepRelease \/ SweepSave

CallbackSteps(k) ==
  \/ CallbackFindBackup(k)
  \/ CallbackFindOriginal(k)
  \/ CallbackReload(k)
  \/ CallbackSavePaid(k)
  \/ CallbackMarkSuccess(k)
  \/ CallbackCatch(k)
  \/ CallbackMarkNoBookings(k)
  \/ CallbackMarkAfterRetry(k)
  \/ CallbackMarkFailed(k)

(***************************************************************************)
(* A sale: three holds over the two seats, one createPaymentIntent and one *)
(* cancelReservation for the first hold, and two confirmBooking calls      *)
(***************************************************************************)
NextSale ==
  \/ CreateStart("r1", {<<"A1">>})
  \/ CreateStart("r2", {<<"A1", "A2">>})
  \/ CreateStart("r3", {<<"A2", "A1">>})
  \/ \E p \in Creators : CreateSteps(p)
  \/ PayStart("p1", "r1", FALSE, FALSE)
  \/ PaySetPending("p1")
  \/ PayMarkPending("p1")
  \/ PayGateway("p1")
  \/ PaySave("p1")
  \/ PayBackup("p1")
  \/ ConfirmStart("k1", "r1", NoPid)
  \/ \E r \in {"r1", "r3"} : ConfirmStart("k2", r, NoPid)
  \/ \E k \in Confirmers : ConfirmExisting(k)
  \/ \E k \in Confirmers : ConfirmSeats(k)
  \/ \E k \in Confirmers : ConfirmSave(k)
  \/ \E k \in Confirmers : ConfirmRecheck(k)
  \/ \E k \in Confirmers : ConfirmCreate(k)
  \/ \E k \in Confirmers : ConfirmNotify(k)
  \/ CancelStart("x1", "r1")
  \/ CancelRelease("x1")
  \/ CancelSave("x1")

SpecSale == Init /\ [][NextSale]_vars

\* C5: no double-sold seat. All Booking records that reference a seat belong
\* to one reservation.
C5_NoDoubleSold ==
  \A a \in booking, b \in booking : a.seat = b.seat => a.rid = b.rid

(***************************************************************************)
(* Expiry: two holds, one createPaymentIntent, one cancelReservation, the  *)
(* clock and the sweeper                                                   *)
(***************************************************************************)
NextExpiry ==
  \/ CreateStart("r1", {<<"A1">>, <<"A1", "A2">>})
  \/ CreateStart("r2", {<<"A1">>})
  \/ \E p \in {"r1", "r2"} : CreateSteps(p)
  \/ \E r \in {"r1", "r2"}, customer \in BOOLEAN : PayStart("p1", r, customer, customer)
  \/ PaySteps("p1")
  \/ CancelStart("x1", "r2")
  \/ CancelRelease("x1")
  \/ CancelSave("x1")
  \/ Tick
  \/ SweepSteps

SpecExpiry == Init /\ [][NextExpiry]_vars

Sweeping(r) == sw.pc # "idle" /\ Head(sw.queue).rid = r
SweeperReleases(r) == Sweeping(r) /\ sw.pc = "release" /\ sw'.pc = "save"
SweeperSaves(r) == Sweeping(r) /\ sw.pc = "save" /\ sw' # sw

\* C3: expiry excludes gateway. The sweeper never releases the seats of a
\* reservation whose numericState is IN_PAYMENT_GATEWAY and never sets it to
\* TIMEOUT, and the race leaves no mix: a reservation in IN_PAYMENT_GATEWAY
\* for which cancelReservation was never called is pending_payment.
C3_ExpiryExcludesGateway ==
  [][\A r \in Creators :
       /\ (lock[r].exists /\ lock[r].numericState = IN_PAYMENT_GATEWAY) =>
            /\ ~(SweeperReleases(r) /\ seat' # seat)
            /\ ~(SweeperSaves(r) /\ lock'[r].numericState = TIMEOUT)
       /\ (/\ lock'[r].exists /\ lock'[r].numericState = IN_PAYMENT_GATEWAY
           /\ \A k \in CancelFrames : cn'[k].rid # r) =>
            lock'[r].status = PENDING_PAYMENT]_vars

\* no createPaymentIntent, cancelReservation or confirmBooking was ever
\* called for r
Untouched(r) ==
  /\ \A k \in Payers : pay[k].rid # r
  /\ \A k \in CancelFrames : cn[k].rid # r
  /\ \A k \in ConfFrames : cf[k].rid # r

\* C8: the sweeper's release of an expired, untouched CART reservation leaves
\* every seat of the reservation available with no reservation id, and its
\* save leaves the reservation with numericState TIMEOUT.
C8_SweepReleasesHold ==
  [][\A r \in Creators :
       (Untouched(r) /\ Expired(lock[r], now)) =>
          /\ SweeperReleases(r) => \A s \in Range(lock[r].seatIds) : seat'[s] = Free
          /\ SweeperSaves(r) => lock'[r].numericState = TIMEOUT]_vars

(***************************************************************************)
(* confirmBooking called twice, the second call after the first returned   *)
(***************************************************************************)
SecondConfirm ==
  /\ ConfirmFinished("k1")
  /\ \E pid \in IssuedPids \cup {NoPid} : ConfirmStart("k2", cf["k1"].rid, pid)

NextTwice ==
  \/ CreateStart("r1", SeatIdLists)
  \/ CreateStart("r2", {<<"A2">>})
  \/ \E p \in {"r1", "r2"} : CreateSteps(p)
  \/ \E customer \in BOOLEAN : PayStart("p1", "r1", customer, customer)
  \/ PaySteps("p1")
  \/ \E pid \in IssuedPids \cup {NoPid} : ConfirmStart("k1", "r1", pid)
  \/ SecondConfirm
  \/ \E k \in Confirmers : ConfirmExisting(k)
  \/ \E k \in Confirmers : ConfirmSavePid(k)
  \/ \E k \in Confirmers : ConfirmSeats(k)
  \/ \E k \in Confirmers : ConfirmSave(k)
  \/ \E k \in Confirmers : ConfirmRecheck(k)
  \/ \E k \in Confirmers : ConfirmCreate(k)
  \/ \E k \in Confirmers : ConfirmNotify(k)
  \/ \E k \in Confirmers : CancelSteps(k)
  \/ Tick

SpecTwice == Init /\ [][NextTwice]_vars

BookingsFor(r, s) == {b \in booking : b.rid = r /\ b.seat = s}
SecondReturned == cf["k2"].pc \in {"ok", "err"} \/ (cf["k2"].pc = "cancel" /\ CancelFinished("k2"))

\* the first call found the reservation confirmable: it booked the seats
FirstConfirmed == cf["k1"].pc \in {"ok", "err"} /\ cf["k1"].res \in {"ok", "notify"}

\* C4: idempotent confirmation. There is never more than one Booking per seat
\* of a reservation, and when confirmBooking was called twice for a
\* reservation it could confirm, both calls returned the same booking ids: one
\* Booking per seat.
C4_IdempotentConfirm ==
  /\ \A r \in Creators, s \in Seats : Cardinality(BookingsFor(r, s)) <= 1
  /\ (FirstConfirmed /\ SecondReturned) =>
       /\ cf["k1"].pc = "ok" /\ cf["k2"].pc = "ok"
       /\ cf["k1"].ids = cf["k2"].ids
       /\ cf["k2"].ids = BookingIds(BookingsOf(cf["k2"].rid))
       /\ \A s \in Range(lock[cf["k2"].rid].seatIds) :
            Cardinality(BookingsFor(cf["k2"].rid, s)) = 1

(***************************************************************************)
(* The payment callback delivered twice                                    *)
(***************************************************************************)
NextCallback ==
  \/ CreateStart("r1", {<<"A1">>, <<"A1", "A2">>})
  \/ CreateStart("r2", {<<"A2">>})
  \/ \E p \in {"r1", "r2"} : CreateSteps(p)
  \/ \E customer \in BOOLEAN : PayStart("p1", "r1", customer, customer)
  \/ PaySteps("p1")
  \/ \E k \in Callbacks, pid \in IssuedPids \cup {Cardinality(issued) + 1},
        verdict \in {"SUCCESS", "FAILED"} : CallbackStart(k, pid, verdict)
  \/ \E k \in Callbacks : CallbackSteps(k)
  \/ \E k \in Callbacks : ConfirmRead(k)
  \/ \E k \in Callbacks : ConfirmExisting(k)
  \/ \E k \in Callbacks : ConfirmSeats(k)
  \/ \E k \in Callbacks : ConfirmSave(k)
  \/ \E k \in Callbacks : ConfirmRecheck(k)
  \/ \E k \in Callbacks : ConfirmCreate(k)
  \/ \E k \in Callbacks : ConfirmNotify(k)

SpecCallback == Init /\ [][NextCallback]_vars

Reconciled(r) ==
  /\ lock[r].numericState = PAYMENT_SUCCESS
  /\ lock[r].status = COMPLETED
  /\ \A s \in Range(lock[r].seatIds) :
       /\ seat[s].state = BOOKED
       /\ Cardinality(BookingsFor(r, s)) = 1
       /\ \A b \in BookingsFor(r, s) : b.pay = "success"

\* C9: reconciliation is safe to invoke twice. When two SUCCESS callbacks for
\* the same payment id have both ended and no notification failed, the
\* reservation is paid, every seat is booked with exactly one Booking of
\* paymentState success, and neither invocation reported an error.
C9_CallbackTwice ==
  \A k \in Callbacks, j \in Callbacks :
    (/\ k # j
     /\ cb[k].pc = "done" /\ cb[j].pc = "done"
     /\ cb[k].verdict = "SUCCESS" /\ cb[j].verdict = "SUCCESS"
     /\ cb[k].pid = cb[j].pid /\ cb[k].rid # NoRes /\ cb[j].rid = cb[k].rid
     /\ cb[k].res # "notify" /\ cb[j].res # "notify")
    => (cb[k].res = "ok" /\ cb[j].res = "ok" /\ Reconciled(cb[k].rid))

(***************************************************************************)
(* The seat editor next to holds and cancellations                         *)
(***************************************************************************)
NextAdmin ==
  \/ \E p \in {"r1", "r2"} : CreateStart(p, SeatIdLists)
  \/ \E p \in {"r1", "r2"} : CreateSteps(p)
  \/ \E r \in {"r1", "r2"} : CancelStart("x1", r)
  \/ CancelRelease("x1")
  \/ CancelSave("x1")
  \/ UpdateSeats

SpecAdmin == Init /\ [][NextAdmin]_vars

\* C10: seat invariant. A seat carries a pendingReservationId if and only if
\* its state is payment_pending.
C10_SeatInvariant ==
  \A s \in Seats : (seat[s].pend # NoRes) <=> (seat[s].state = PAYMENT_PENDING)

(***************************************************************************)
(* The life of a reservation: every operation that saves a SeatLock        *)
(***************************************************************************)
Next ==
  \/ CreateStart("r1", {<<"A1">>})
  \/ LockStep("r1")
  \/ CreateSave("r1")
  \/ \E customer \in BOOLEAN : PayStart("p1", "r1", customer, customer)
  \/ PaySteps("p1")
  \/ ConfirmStart("k1", "r1", NoPid)
  \/ \E pid \in IssuedPids : ConfirmStart("k2", "r1", pid)
  \/ \E pid \in IssuedPids, verdict \in {"SUCCESS", "FAILED"} : CallbackStart("b1", pid, verdict)
  \/ CallbackSteps("b1")
  \/ \E k \in Confirmers \cup {"b1"} : ConfirmSteps(k)
  \/ \E k \in Confirmers \cup {"b1"} : CancelSteps(k)
  \/ Tick
  \/ TtlDelete
  \/ SweepSteps

Spec == Init /\ [][Next]_vars

BeyondCart(lk) == lk.exists /\ lk.numericState # CART_TO_PAYMENT

\* C6: state monotonicity. A reservation whose numericState is
\* IN_PAYMENT_GATEWAY, TIMEOUT or PAYMENT_SUCCESS is never set back to
\* CART_TO_PAYMENT, for as long as it is stored.
C6_NeverBackToCart ==
  [][\A r \in Creators :
       (BeyondCart(lock[r]) /\ lock'[r].exists) => BeyondCart(lock'[r])]_vars

\* a createPaymentIntent call that loaded the reservation in CART has saved
\* the customer information from that copy, and the stored reservation is
\* beyond CART
C6_Witness ==
  \E k \in Payers :
    /\ pay[k].pc = "gateway" /\ pay[k].info
    /\ pay[k].mem.numericState = CART_TO_PAYMENT
    /\ \A j \in Payers \ {k} : pay[j].pc = "idle"
    /\ lock[pay[k].rid].exists
    /\ lock[pay[k].rid].phone
    /\ lock[pay[k].rid].numericState = TIMEOUT

\* C11: a reservation at the gateway is protected from expiry.  No call of
\* confirmBooking ends with 'Reservation has expired' on a reservation that it
\* read with numericState IN_PAYMENT_GATEWAY while every seat of the
\* reservation was still payment_pending under its id.
C11_GatewayHoldConfirms ==
  [][\A k \in ConfFrames : \A r \in Creators :
       (cf[k].res # "expired" /\ cf'[k].res = "expired" /\ cf'[k].rid = r)
         => ~(/\ lock[r].exists
              /\ lock[r].numericState = IN_PAYMENT_GATEWAY
              /\ \A s \in Range(lock[r].seatIds) : seat[s] = HeldBy(r))]_vars

\* C12: the step from CART_TO_PAYMENT to IN_PAYMENT_GATEWAY is stored before
\* the request to the gateway is made: whenever the gateway creates a
\* transaction for a reservation, the stored SeatLock already has numericState
\* IN_PAYMENT_GATEWAY, and the sweeper never releases the seats of or times
\* out a reservation for which a transaction was created.
SentToGateway(r) == \E t \in issued : t.rid = r

C12_GatewayStateFirst ==
  [][\A r \in Creators :
       /\ (SentToGateway(r)' /\ ~SentToGateway(r))
            => (lock[r].exists /\ lock[r].numericState = IN_PAYMENT_GATEWAY)
       /\ SentToGateway(r) => ~(SweeperReleases(r) \/ SweeperSaves(r))]_vars

\* C13: a partial confirmation never half-books.  When confirmBooking fails
\* because atomicConfirmSeats confirmed fewer seats than the reservation has,
\* the failing call leaves no seat booked that was not booked before, creates
\* no Booking and does not change the SeatLock.
ConfirmMismatch(k) == cf[k].pc = "seats" /\ cf'[k].res = "mismatch"

C13_NoHalfBooking ==
  [][\A k \in ConfFrames :
       ConfirmMismatch(k)
         => /\ \A s \in Seats : seat'[s].state = BOOKED => seat[s].state = BOOKED
            /\ booking' = booking
            /\ lock' = lock]_vars

(***************************************************************************)
(* The gateway's redirect: localId, payment id and status in the query     *)
(***************************************************************************)
NextRedirect ==
  \/ CreateStart("r1", {<<"A1">>, <<"A1", "A2">>})
  \/ CreateStart("r2", {<<"A2">>})
  \/ \E p \in {"r1", "r2"} : CreateSteps(p)
  \/ \E customer \in BOOLEAN : PayStart("p1", "r1", customer, customer)
  \/ PayStart("p2", "r2", FALSE, FALSE)
  \/ \E k \in Payers : PaySteps(k)
  \/ CancelStart("x1", "r1")
  \/ CancelRelease("x1")
  \/ CancelSave("x1")
  \/ \E localId \in {"r1", "r2", NoRes},
        pid \in IssuedPids \cup {NoPid, Cardinality(issued) + 1},
        verdict \in {"SUCCESS", "FAILED"} : RedirectStart("b1", localId, pid, verdict)
  \/ RedirectSteps("b1")
  \/ CallbackSteps("b1")
  \/ ConfirmRead("b1")
  \/ ConfirmExisting("b1")
  \/ ConfirmSeats("b1")
  \/ ConfirmSave("b1")
  \/ ConfirmRecheck("b1")
  \/ ConfirmCreate("b1")
  \/ ConfirmNotify("b1")

SpecRedirect == Init /\ [][NextRedirect]_vars

\* C14: a redirect that carries the reservation id of an existing reservation
\* is processed against that reservation whatever payment id accompanies it:
\* the callback it runs finds a seat lock, and the one it found by localId.
\* local is set when findById(localId) found the reservation.
C14_RedirectByReservationId ==
  \A k \in Callbacks :
    (cb[k].local # NoRes /\ cb[k].pid # NoPid)
      => /\ cb[k].res # "notfound"
         /\ cb[k].rid \in {NoRes, cb[k].local}

(***************************************************************************)
(* Lapsed holds: a hold, its createPaymentIntent, the clock, the TTL index *)
(* and the sweeper, which runs again and again                             *)
(***************************************************************************)
NextHold ==
  \/ CreateStart("r1", SeatIdLists)
  \/ LockStep("r1")
  \/ CreateSave("r1")
  \/ CreateSaveFails("r1")
  \/ \E customer \in BOOLEAN : PayStart("p1", "r1", customer, customer)
  \/ PaySteps("p1")
  \/ Tick
  \/ TtlDelete
  \/ SweepSteps

\* setInterval runs checkExpiredReservations for ever, started handlers run on,
\* time passes; nothing is assumed about when the TTL monitor deletes
SpecHold ==
  /\ Init
  /\ [][NextHold]_vars
  /\ WF_vars(SweepSteps)
  /\ WF_vars(Tick)
  /\ WF_vars(LockStep("r1") \/ CreateSave("r1") \/ CreateSaveFails("r1"))
  /\ WF_vars(PaySteps("p1"))

AtGateway(r) == lock[r].exists /\ lock[r].numericState = IN_PAYMENT_GATEWAY
Lapsed(r) == ~lock[r].exists \/ lock[r].expiresAt < now

\* C15: no hold is lost.  With the sweeper running again and again, a seat
\* that is payment_pending under a reservation whose createReservation has
\* ended and whose hold has lapsed (expiresAt passed, or no SeatLock in the
\* store) eventually becomes available or booked, unless the reservation is
\* at the gateway.
C15_NoLostHold ==
  \A s \in Seats : \A r \in Creators :
    (seat[s] = HeldBy(r) /\ cr[r].pc = "done" /\ Lapsed(r))
      ~> (seat[s].state \in {AVAILABLE, BOOKED} \/ AtGateway(r))

\* C16: a reservation whose numericState is PAYMENT_SUCCESS has every seat
\* booked and exactly one Booking per seat, and a reservation in any other
\* numericState has no Booking.
C16_PaidIffBooked ==
  \A r \in Creators :
    lock[r].exists
      => IF lock[r].numericState = PAYMENT_SUCCESS
           THEN \A s \in Range(lock[r].seatIds) :
                  /\ seat[s].state = BOOKED
                  /\ Cardinality(BookingsFor(r, s)) = 1
           ELSE BookingsOf(r) = {}

\* C17: cancelReservation.  On a reservation that exists with status
\* pending_payment (CART_TO_PAYMENT or IN_PAYMENT_GATEWAY) the call goes on to
\* the release, the release leaves every seat that was payment_pending under
\* the reservation id available with no pendingReservationId, the save sets
\* status cancelled and the call returns; on an unknown id the call fails
\* with not-found and the store is unchanged.
CancelEnters(k) == cn[k].pc \in {"idle", "read"} /\ cn'[k].pc # cn[k].pc

CreateSucceeds(p) == cr[p].pc = "save" /\ cr'[p].res = "ok"

C18_CreatedHold ==
  [][\A p \in Creators :
       CreateSucceeds(p)
         => /\ \A s \in Range(cr[p].seatIds) : seat'[s] = HeldBy(p)
            /\ lock'[p].exists
            /\ lock'[p].status = PENDING_PAYMENT
            /\ lock'[p].numericState = CART_TO_PAYMENT
            /\ lock'[p].seatIds = cr[p].seatIds
            /\ lock'[p].expiresAt = cr[p].expiresAt]_vars

\* C19: a createReservation that does not succeed leaves no trace.  A request
\* with an empty seat list or a seat that is not of the event is rejected, and
\* every rejection (these, sales disabled, outside the sale window) happens
\* with the store unchanged.  When the lock fails, the seats the call had
\* locked are available again as they were when it locked them, the call
\* changed no other seat, no seat carries its reservation id and no SeatLock
\* of that id exists.
CreateRejects(p) == cr[p].pc = "idle" /\ cr'[p].res = "rejected"

C19_FailedCreateNoTrace ==
  [][\A p \in Creators :
       /\ (cr[p].pc = "idle" /\ cr'[p].pc # "idle" /\ cr'[p].seatIds \in BadSeatIdLists)
            => CreateRejects(p)
       /\ CreateRejects(p) => store' = store
       /\ (~LockFailed(p) /\ LockFailed(p)')
            => /\ \A s \in Seats :
                    /\ seat'[s].pend # p
                    /\ (s \in cr[p].locked => seat'[s] = Free)
                    /\ (seat'[s] # seat[s] => s \in cr[p].locked)
               /\ ~lock'[p].exists]_vars

\* one call was rejected for a seat of another event, another locked one of
\* its two seats, failed on the other and gave the first one back
C19_Witness ==
  \E p \in Creators, q \in Creators :
    /\ cr[p].res = "rejected" /\ cr[p].seatIds = <<ForeignSeat>>
    /\ ~lock[p].exists
    /\ LockFailed(q) /\ Len(cr[q].seatIds) = 2 /\ Cardinality(cr[q].failed) = 1
    /\ \A s \in Requested(q) \ cr[q].failed : seat[s] = Free
    /\ ~lock[q].exists

\* C20: in every state each SeatLock with numericState IN_PAYMENT_GATEWAY has
\* a SeatLockBackup of the same _id whose paymentIntentId was issued by the
\* gateway for that reservation, and a backup exists only for a reservation
\* for which a transaction was issued and which has left CART_TO_PAYMENT.
IssuedFor(r, pid) == [pid |-> pid, rid |-> r] \in issued

C20_BackupAtGateway ==
  \A r \in Creators :
    /\ AtGateway(r) => (backup[r] # NoPid /\ IssuedFor(r, backup[r]))
    /\ backup[r] # NoPid
         => (IssuedFor(r, backup[r])
             /\ (lock[r].exists => lock[r].numericState # CART_TO_PAYMENT))

\* C21: a notification failure never aborts the confirmation.  Once the seats
\* are confirmed and the Booking records exist, confirmBooking returns the
\* booking ids, whether or not the reservation has a phone number and Firebase
\* works.
C21_NotifyNeverAborts ==
  [][\A k \in ConfFrames :
       (cf[k].pc = "notify" /\ cf'[k].pc # "notify")
         => (cf'[k].pc = "ok" /\ cf'[k].ids = cf[k].ids)]_vars

\* C22: on a FAILED verdict handleDialogGenieCallback sets paymentState failed
\* on the Booking records of the reservation and changes nothing else: seats
\* and seat locks are unchanged, no Booking is created or removed, Booking
\* records of other reservations keep their paymentState, and the result is
\* success:false with the reservation id.
WithoutPay(B) == {[id |-> b.id, rid |-> b.rid, seat |-> b.seat] : b \in B}
CallbackFails(k) == cb[k].verdict = "FAILED" /\ cb[k].pc # "done" /\ cb'[k].pc = "done"

C22_FailedVerdictFrame ==
  [][\A k \in Callbacks :
       /\ (cb[k].verdict = "FAILED" /\ cb'[k] # cb[k])
            => (seat' = seat /\ lock' = lock /\ WithoutPay(booking') = WithoutPay(booking))
       /\ (CallbackFails(k) /\ cb[k].rid # NoRes /\ cb'[k].res # "notfound")
            => /\ cb'[k].res = "failed" /\ cb'[k].rid = cb[k].rid
               /\ \A b \in booking' : b.rid = cb[k].rid => b.pay = "failed"
               /\ \A b \in booking' : b.rid # cb[k].rid => b \in booking]_vars

\* a FAILED callback marked a Booking of its reservation
C22_Witness ==
  \E k \in Callbacks :
    /\ cb[k].pc = "done" /\ cb[k].verdict = "FAILED" /\ cb[k].res = "failed"
    /\ \E b \in booking : b.rid = cb[k].rid /\ b.pay = "failed"

\* C23: a reservation record in IN_PAYMENT_GATEWAY or PAYMENT_SUCCESS is never
\* removed from the store: no step turns an existing SeatLock in numericState
\* -2 or 1 into a missing one.
C23_GatewayRecordKept ==
  [][\A r \in Creators :
       (lock[r].exists /\ lock[r].numericState \in {IN_PAYMENT_GATEWAY, PAYMENT_SUCCESS})
         => lock'[r].exists]_vars

\* C24: once a Booking's paymentState is success, no step of a payment
\* callback (a FAILED verdict or a replay for the same payment id) changes it,
\* and the callback leaves seats booked and the reservation PAID.
C24_ReconciledOnce ==
  [][\A k \in Callbacks :
       cb'[k] # cb[k]
         => \A b \in booking : b.pay = "success" => b \in booking']_vars

\* C25: atomicConfirmSeats(seatIds, R), as called by confirmBooking, turns into
\* booked with no pendingReservationId exactly the seats of seatIds that are
\* payment_pending under R, leaves every other seat as it was, and returns
\* the number of seats it changed without raising an error: the caller sees a
\* mismatch exactly when that number differs from the number of seat ids.
ConfirmsSeats(k) == cf[k].pc = "seats" /\ cf'[k].pc # "seats"

C25_ConfirmExactlyHeld ==
  [][\A k \in ConfFrames :
       ConfirmsSeats(k) =>
         LET S == Range(cf[k].mem.seatIds)
             R == cf[k].rid
             Changed == {s \in Seats : seat'[s] # seat[s]}
         IN /\ \A s \in Seats :
                 s \in Changed <=> (s \in S /\ seat[s] = HeldBy(R))
            /\ \A s \in Changed : seat'[s] = [state |-> BOOKED, pend |-> NoRes]
            /\ (cf'[k].res = "mismatch") <=> (Cardinality(Changed) # Len(cf[k].mem.seatIds))
            /\ cf'[k].res \in {"none", "mismatch"}]_vars

\* a confirm that booked one of its seats and left another one, held by a
\* different reservation, as it was
C25_Witness ==
  \E k \in ConfFrames : \E s \in Seats, t \in Seats :
    /\ cf[k].res = "mismatch" /\ lock[cf[k].rid].exists
    /\ \A j \in ConfFrames \ {k} : cf[j].pc = "idle"
    /\ {s, t} \subseteq Range(lock[cf[k].rid].seatIds)
    /\ seat[s].state = BOOKED
    /\ seat[t].state = PAYMENT_PENDING /\ seat[t].pend # cf[k].rid

\* C26: releaseSeatsByReservation(R), as called by cancelReservation and by
\* the sweeper, sets to available with no pendingReservationId exactly the
\* seats that are payment_pending under R; seats that are booked, available
\* or held by another reservation are unchanged, and releasing R again on the
\* result changes nothing.
Released(R) ==
  LET Changed == {s \in Seats : seat'[s] # seat[s]}
  IN /\ \A s \in Seats : s \in Changed <=> seat[s] = HeldBy(R)
     /\ \A s \in Changed : seat'[s] = Free
     /\ \A s \in Seats : seat'[s] # HeldBy(R)
     /\ releaseSeatsByReservation(seat', R) = seat'

ConfirmCrash(k) ==
  /\ cf[k].pc \in {"save", "recheck", "create"}
  /\ cf' = [cf EXCEPT ![k] = CfEnd(cf[k], "err", {}, "crashed")]
  /\ UNCHANGED <<now, store, cr, pay, cn, sw, cb, pricing>>

RetryConfirm ==
  /\ cf["k1"].res = "crashed"
  /\ \E pid \in IssuedPids \cup {NoPid} : ConfirmStart("k2", "r1", pid)

NextCrash ==
  \/ CreateStart("r1", SeatIdLists)
  \/ LockStep("r1")
  \/ CreateSave("r1")
  \/ \E customer \in BOOLEAN : PayStart("p1", "r1", customer, customer)
  \/ PaySteps("p1")
  \/ \E pid \in IssuedPids \cup {NoPid} : ConfirmStart("k1", "r1", pid)
  \/ ConfirmCrash("k1")
  \/ RetryConfirm
  \/ \E k \in Confirmers : ConfirmExisting(k)
  \/ \E k \in Confirmers : ConfirmSavePid(k)
  \/ \E k \in Confirmers : ConfirmSeats(k)
  \/ \E k \in Confirmers : ConfirmSave(k)
  \/ \E k \in Confirmers : ConfirmRecheck(k)
  \/ \E k \in Confirmers : ConfirmCreate(k)
  \/ \E k \in Confirmers : ConfirmNotify(k)

SpecCrash == Init /\ [][NextCrash]_vars

\* C27: confirmation survives a crash after the seat confirm and before the
\* booking write.  A confirmBooking that reaches its seat confirm while every
\* seat of the reservation is already booked and the reservation has no
\* Booking record does not fail there: it goes on to create the Bookings.
C27_RetryAfterCrash ==
  [][\A k \in Confirmers :
       (/\ cf[k].pc = "seats"
        /\ \A s \in Range(cf[k].mem.seatIds) : seat[s].state = BOOKED
        /\ BookingsOf(cf[k].rid) = {})
         => cf'[k].res # "mismatch"]_vars

(***************************************************************************)
(* confirmBooking racing the sweeper on one reservation                    *)
(***************************************************************************)
NextRace ==
  \/ CreateStart("r1", SeatIdLists)
  \/ LockStep("r1")
  \/ CreateSave("r1")
  \/ \E k \in Confirmers : ConfirmStart(k, "r1", NoPid)
  \/ \E k \in Confirmers : ConfirmExisting(k)
  \/ \E k \in Confirmers : ConfirmSeats(k)
  \/ \E k \in Confirmers : ConfirmSave(k)
  \/ \E k \in Confirmers : ConfirmRecheck(k)
  \/ \E k \in Confirmers : ConfirmCreate(k)
  \/ \E k \in Confirmers : ConfirmNotify(k)
  \/ \E k \in Confirmers : CancelSteps(k)
  \/ Tick
  \/ SweepSteps

SpecRace == Init /\ [][NextRace]_vars

Quiet ==
  /\ sw.pc = "idle"
  /\ \A k \in Confirmers : cf[k].pc = "idle" \/ ConfirmFinished(k)

\* C28: once confirmBooking and the sweeper have both finished with a
\* reservation, it is not cancelled or TIMED_OUT with a booked seat, and it
\* is not completed with an available seat.
C28_RaceConsistent ==
  Quiet =>
    \A r \in Creators : lock[r].exists =>
      \A s \in Range(lock[r].seatIds) :
        /\ ~(seat[s].state = BOOKED
               /\ (lock[r].status = CANCELLED \/ lock[r].numericState = TIMEOUT))
        /\ ~(seat[s].state = AVAILABLE /\ lock[r].status = COMPLETED)

\* C29: PAID and TIMED_OUT are terminal.  Once a SeatLock has status
\* completed or numericState PAYMENT_SUCCESS or TIMEOUT, no step changes its
\* status or its numericState.
Terminal(lk) ==
  lk.exists /\ (lk.status = COMPLETED \/ lk.numericState \in {PAYMENT_SUCCESS, TIMEOUT})

C29_TerminalStates ==
  [][\A r \in Creators :
       (Terminal(lock[r]) /\ lock'[r].exists)
         => /\ lock'[r].status = lock[r].status
            /\ lock'[r].numericState = lock[r].numericState]_vars

(***************************************************************************)
(* BookingsService.updateTickets                                           *)
(***************************************************************************)
MaxPersons == 2

Dtos ==
  {[EmptyDto EXCEPT !.adults = a, !.kids = c] : a \in 0..MaxPersons, c \in 0..MaxPersons}
    \cup {[EmptyDto EXCEPT !.seatAssignments = f] : f \in [Seats -> AgeClasses \cup {NoType}]}

HasAssignments(dto) == \E s \in Seats : dto.seatAssignments[s] # NoType

\* the amount updateTickets computes for a loaded seat lock
TicketsAmount(lk, dto) ==
  IF HasAssignments(dto)
    THEN calculateAmountWithSeatAssignments(Range(lk.seatIds), pricing, dto.seatAssignments)
    ELSE calculateAmount(Range(lk.seatIds), pricing, dto.adults, dto.kids)

\* findById and the guards, then the event and the seats are read and the
\* amount is computed; the call runs in a frame of the same shape as
\* createPaymentIntent's
UpdateTicketsStart(k, r, dto) ==
  /\ pay[k].pc = "idle"
  /\ pay' = [pay EXCEPT ![k] =
       IF ~lock[r].exists
         THEN PayDone(r, NoPid, "notfound")
       ELSE IF lock[r].status # PENDING_PAYMENT
         THEN PayDone(r, NoPid, "bad_status")
       ELSE [PayIdle EXCEPT !.pc = "tickets", !.rid = r, !.doc = lock[r], !.dto = dto,
                            !.mem = [lock[r] EXCEPT !.amountSummary = TicketsAmount(lock[r], dto)]]]
  /\ UNCHANGED <<now, store, cr, cf, cn, sw, cb, pricing>>

\* mutant: the save stores the whole loaded copy with the new amount
UpdateTicketsSaveWhole(k) ==
  /\ pay[k].pc = "tickets"
  /\ lock' = [lock EXCEPT ![pay[k].rid] = IF @.exists THEN pay[k].mem ELSE @]
  /\ pay' = [pay EXCEPT ![k] =
               PayDone(pay[k].rid, NoPid,
                       IF SaveThrows(pay[k].rid) THEN "save_error" ELSE "tickets")]
  /\ UNCHANGED <<now, seat, booking, backup, issued, cr, cf, cn, sw, cb, pricing>>

\* seatLock.save() of the new amountSummary, the only modified path
UpdateTicketsSave(k) ==
  /\ pay[k].pc = "tickets"
  /\ lock' = [lock EXCEPT ![pay[k].rid] = SaveDoc(lock[pay[k].rid], pay[k].doc, pay[k].mem)]
  /\ pay' = [pay EXCEPT ![k] =
               PayDone(pay[k].rid, NoPid,
                       IF SaveThrows(pay[k].rid) THEN "save_error" ELSE "tickets")]
  /\ UNCHANGED <<now, seat, booking, backup, issued, cr, cf, cn, sw, cb, pricing>>

NextReject ==
  \/ CreateStart("r1", SeatIdLists)
  \/ LockStep("r1")
  \/ CreateSave("r1")
  \/ CancelStart("x1", "r1")
  \/ CancelRelease("x1")
  \/ CancelSave("x1")
  \/ \E k \in Confirmers : ConfirmStart(k, "r1", NoPid)
  \/ \E k \in Confirmers : ConfirmExisting(k)
  \/ \E k \in Confirmers : ConfirmSeats(k)
  \/ \E k \in Confirmers : ConfirmSave(k)
  \/ \E k \in Confirmers : ConfirmRecheck(k)
  \/ \E k \in Confirmers : ConfirmCreate(k)
  \/ \E k \in Confirmers : ConfirmNotify(k)
  \/ \E customer \in BOOLEAN : PayStart("p1", "r1", customer, customer)
  \/ PaySteps("p1")
  \/ UpdateTicketsStart("p2", "r1", EmptyDto)
  \/ UpdateTicketsSave("p2")

SpecReject == Init /\ [][NextReject]_vars

\* C30: a confirmBooking that loads a reservation whose status is cancelled
\* throws BadRequest and changes no seat, no Booking and no SeatLock; a
\* createPaymentIntent or updateTickets that loads a reservation whose status
\* is not pending_payment is rejected the same way.
C30_RejectedNoEffect ==
  [][/\ \A k \in Confirmers :
          (/\ cf[k].pc = "idle" /\ cf'[k].pc # "idle"
           /\ lock[cf'[k].rid].exists /\ lock[cf'[k].rid].status = CANCELLED)
            => (cf'[k].pc = "err" /\ cf'[k].res = "bad_status" /\ store' = store)
     /\ \A k \in Payers :
          (/\ pay[k].pc = "idle" /\ pay'[k].pc # "idle"
           /\ lock[pay'[k].rid].exists /\ lock[pay'[k].rid].status # PENDING_PAYMENT)
            => (pay'[k].pc = "done" /\ pay'[k].res = "bad_status" /\ store' = store)]_vars

\* the three calls were rejected on the cancelled reservation
C30_Witness ==
  /\ lock["r1"].exists /\ lock["r1"].status = CANCELLED
  /\ cf["k1"].res = "bad_status" /\ cf["k1"].rid = "r1"
  /\ pay["p1"].res = "bad_status" /\ pay["p1"].rid = "r1"
  /\ pay["p2"].res = "bad_status" /\ pay["p2"].rid = "r1"

\* C31: confirmation re-checks expiresAt.  A confirmBooking that loads a
\* reservation in CART (status pending_payment) whose expiresAt is in the
\* past fails with 'Reservation has expired' and calls cancelReservation
\* without writing anything itself; that cancelReservation releases exactly
\* the seats still held by the reservation, saves status cancelled, and no
\* step of the failing call creates a Booking.
LoadsExpiredCart(k) ==
  /\ cf[k].pc = "idle" /\ cf'[k].pc # "idle"
  /\ lock[cf'[k].rid].exists
  /\ lock[cf'[k].rid].status = PENDING_PAYMENT
  /\ lock[cf'[k].rid].numericState = CART_TO_PAYMENT
  /\ now > lock[cf'[k].rid].expiresAt

C31_ConfirmRechecksExpiry ==
  [][\A k \in Confirmers :
       /\ LoadsExpiredCart(k)
            => /\ cf'[k].pc = "cancel" /\ cf'[k].res = "expired"
               /\ cn'[k].pc = "read" /\ cn'[k].rid = cf'[k].rid
               /\ store' = store
       /\ (cf[k].res = "expired" /\ cn'[k] # cn[k])
            => /\ booking' = booking
               /\ cf'[k] = cf[k]
               /\ cn[k].pc = "release" => Released(cn[k].rid)
               /\ (cn[k].pc = "save" /\ lock[cn[k].rid].exists)
                    => lock'[cn[k].rid].status = CANCELLED]_vars

(***************************************************************************)
(* The sweeper over two reservations, one of them on its way to the        *)
(* gateway, with the TTL index deleting expired documents                  *)
(***************************************************************************)
NextSweep ==
  \/ CreateStart("r1", {<<"A1">>})
  \/ CreateStart("r2", {<<"A2">>})
  \/ \E p \in {"r1", "r2"} : LockStep(p)
  \/ \E p \in {"r1", "r2"} : CreateSave(p)
  \/ PayStart("p1", "r2", FALSE, FALSE)
  \/ PaySetPending("p1")
  \/ PayMarkPending("p1")
  \/ PayGateway("p1")
  \/ PaySave("p1")
  \/ PayBackup("p1")
  \/ CancelStart("x1", "r1")
  \/ CancelRelease("x1")
  \/ CancelSave("x1")
  \/ Tick
  \/ TtlDelete
  \/ SweepSteps

SpecSweep == Init /\ [][NextSweep]_vars

\* C32: the sweeper acts only on lapsed CART holds.  Every reservation a run
\* of checkExpiredReservations takes up is, at the scan, pending_payment, in
\* CART and past its expiresAt; the scan writes nothing; each later step of
\* the run changes only the SeatLock of the reservation it is processing and
\* seats held under that reservation's id; and when the save of one
\* reservation fails, the run goes on with the next one.
C32_SweeperFrame ==
  [][/\ (sw.pc = "idle" /\ sw'.pc # "idle")
          => /\ store' = store
             /\ \A i \in DOMAIN sw'.queue :
                  LET lk == lock[sw'.queue[i].rid]
                  IN /\ lk.exists
                     /\ lk.status = PENDING_PAYMENT
                     /\ lk.numericState = CART_TO_PAYMENT
                     /\ lk.expiresAt < now
     /\ (sw.pc # "idle" /\ sw' # sw)
          => LET r == Head(sw.queue).rid
             IN /\ \A q \in Creators \ {r} : lock'[q] = lock[q]
                /\ \A s \in Seats : seat[s].pend # r => seat'[s] = seat[s]
                /\ booking' = booking /\ backup' = backup
                /\ (sw.pc = "save" /\ Len(sw.queue) > 1)
                     => (sw'.pc = "release" /\ sw'.queue = Tail(sw.queue))]_vars

\* the run has released the first of two expired reservations, whose document
\* the store has deleted since the scan, so that its save fails; the second
\* one is still held and waits in the run's list
C32_Witness ==
  /\ sw.pc = "save" /\ Len(sw.queue) = 2
  /\ ~lock[sw.queue[1].rid].exists
  /\ \E s \in Seats : seat[s] = HeldBy(sw.queue[2].rid)

(***************************************************************************)
(* Pricing: createReservation and updateTickets over events and seats with *)
(* every combination of ticket type, basePrice and commission              *)
(***************************************************************************)
Pricings ==
  [defaultPrice : {4},
   ticketTypes : [TicketTypeNames ->
                    {NoTicketType,
                     [defined |-> TRUE, adultPrice |-> 10, childPrice |-> 6],
                     [defined |-> TRUE, adultPrice |-> 0, childPrice |-> 6]}],
   commission : {NoCommission, [type |-> "percentage", value |-> 10],
                 [type |-> "flat", value |-> 2]},
   ticketType : [Seats -> TicketTypeNames \cup {NoType}],
   basePrice : [Seats -> {0, 8}]]

InitPrice == InitStore /\ pricing \in Pricings

NextPrice ==
  \/ CreateStart("r1", SeatIdLists)
  \/ LockStep("r1")
  \/ CreateSave("r1")
  \/ \E dto \in Dtos : UpdateTicketsStart("p2", "r1", dto)
  \/ UpdateTicketsSave("p2")

SpecPrice == InitPrice /\ [][NextPrice]_vars

\* the unit price of the specification: the adult or child price of the
\* seat's ticket type when the event defines that type, else the seat's
\* basePrice when positive, else the event's defaultPrice
UnitPrice(s, age) ==
  LET t == pricing.ticketType[s]
  IN IF t # NoType /\ pricing.ticketTypes[t].defined
       THEN IF age = "child" THEN pricing.ticketTypes[t].childPrice
                             ELSE pricing.ticketTypes[t].adultPrice
     ELSE IF pricing.basePrice[s] > 0 THEN pricing.basePrice[s]
     ELSE pricing.defaultPrice

\* the summary of the specification for seats S priced at the classes age[s]
Priced(S, age, summary) ==
  LET subtotal == SumOver(S, [s \in S |-> UnitPrice(s, age[s]) * Scale])
      commission ==
        IF pricing.commission.type = "percentage"
          THEN (subtotal * pricing.commission.value) \div 100
        ELSE IF pricing.commission.type = "flat"
          THEN pricing.commission.value * Cardinality(S) * Scale
        ELSE 0
  IN /\ summary.subtotal = subtotal
     /\ summary.commission = commission
     /\ summary.taxes = 0
     /\ summary.total = subtotal + commission

\* C33: pricing.  The summary createReservation stores prices every seat as
\* adult, and the summary updateTickets computes prices every seat at its
\* assigned age class, adult when it has none: subtotal is the sum of the
\* unit prices, commission the percentage of the subtotal or the flat value
\* per seat, taxes 0 and total their sum.
C33_Pricing ==
  [][/\ \A p \in Creators :
          (cr[p].pc = "save" /\ lock'[p].exists)
            => Priced(Range(lock'[p].seatIds), [s \in Seats |-> "adult"],
                      lock'[p].amountSummary)
     /\ \A k \in Payers :
          (pay[k].pc = "idle" /\ pay'[k].pc = "tickets")
            => Priced(Range(pay'[k].mem.seatIds),
                      [s \in Seats |-> IF pay'[k].dto.seatAssignments[s] = "child"
                                         THEN "child" ELSE "adult"],
                      pay'[k].mem.amountSummary)]_vars

(***************************************************************************)
(* updateTickets next to createPaymentIntent, confirmBooking and the       *)
(* sweeper on one reservation                                              *)
(***************************************************************************)
NextTickets ==
  \/ CreateStart("r1", {<<"A1">>})
  \/ LockStep("r1")
  \/ CreateSave("r1")
  \/ \E dto \in {EmptyDto, [EmptyDto EXCEPT !.adults = MaxPersons]} :
       UpdateTicketsStart("p2", "r1", dto)
  \/ UpdateTicketsSave("p2")
  \/ \E customer \in BOOLEAN : PayStart("p1", "r1", customer, customer)
  \/ PaySteps("p1")
  \/ ConfirmStart("k1", "r1", NoPid)
  \/ ConfirmSeats("k1")
  \/ ConfirmSave("k1")
  \/ ConfirmRecheck("k1")
  \/ ConfirmCreate("k1")
  \/ ConfirmNotify("k1")
  \/ CancelSteps("k1")
  \/ Tick
  \/ SweepSteps

SpecTickets == Init /\ [][NextTickets]_vars

\* C34: updateTickets replaces only the price summary.  Its findById and
\* guards write nothing; its save changes no seat, no Booking and no SeatLock
\* other than its own, and of its own SeatLock it changes amountSummary, to
\* the amount it computed, and no other field, whatever the other operations
\* have stored since it loaded the document.
C34_TicketsOnlyAmount ==
  [][\A k \in Payers :
       /\ (pay[k].pc = "idle" /\ pay'[k].pc = "tickets") => store' = store
       /\ (pay[k].pc = "tickets" /\ pay'[k].pc # "tickets")
            => /\ seat' = seat /\ booking' = booking /\ backup' = backup
               /\ \A r \in Creators \ {pay[k].rid} : lock'[r] = lock[r]
               /\ lock'[pay[k].rid].exists = lock[pay[k].rid].exists
               /\ lock[pay[k].rid].exists
                    => /\ lock'[pay[k].rid].amountSummary = pay[k].mem.amountSummary
                       /\ [lock'[pay[k].rid] EXCEPT !.amountSummary = lock[pay[k].rid].amountSummary]
                            = lock[pay[k].rid]]_vars

\* updateTickets is about to save a new amount from a copy loaded in CART
\* while the stored reservation has been sent to the gateway since
C34_Witness ==
  /\ pay["p2"].pc = "tickets"
  /\ pay["p2"].doc.numericState = CART_TO_PAYMENT
  /\ pay["p2"].mem.amountSummary # pay["p2"].doc.amountSummary
  /\ lock["r1"].exists
  /\ lock["r1"].numericState = IN_PAYMENT_GATEWAY
  /\ lock["r1"].paymentIntentId # NoPid

\* C35: a gateway failure is surfaced and does not advance the reservation.
\* When the gateway request of createPaymentIntent fails or brings no valid
\* payment URL, the call ends with an error and that step writes nothing: the
\* SeatLock keeps its numericState and paymentIntentId and no backup is
\* written; and a reservation whose createPaymentIntent failed this way and
\* that is pending_payment, in CART and past expiresAt is taken up by the
\* next scan of the sweeper.
GatewayFails(k) == pay[k].pc = "gateway" /\ pay'[k].pc = "done"

C35_GatewayFailure ==
  [][\A k \in Payers :
       /\ GatewayFails(k)
            => /\ pay'[k].res = "gateway_error" /\ pay'[k].pid = NoPid
               /\ store' = store
       /\ (/\ pay[k].res = "gateway_error"
           /\ sw.pc = "idle" /\ sw'.pc # "idle"
           /\ lock[pay[k].rid].exists
           /\ lock[pay[k].rid].status = PENDING_PAYMENT
           /\ lock[pay[k].rid].numericState = CART_TO_PAYMENT
           /\ lock[pay[k].rid].expiresAt < now)
            => \E i \in DOMAIN sw'.queue : sw'.queue[i].rid = pay[k].rid]_vars

\* createPaymentIntent failed at the gateway; the reservation is in CART with
\* no payment id and no backup, its hold has lapsed and the sweeper has taken
\* it up
C35_Witness ==
  \E k \in Payers :
    /\ pay[k].res = "gateway_error"
    /\ lock[pay[k].rid].exists
    /\ lock[pay[k].rid].numericState = CART_TO_PAYMENT
    /\ lock[pay[k].rid].paymentIntentId = NoPid
    /\ backup[pay[k].rid] = NoPid
    /\ lock[pay[k].rid].expiresAt < now
    /\ sw.pc = "release" /\ Head(sw.queue).rid = pay[k].rid

\* C36: seat ownership is never taken over.  No step takes a seat that is
\* payment_pending under reservation R to payment_pending under a different
\* reservation.
C36_NoTakeover ==
  [][\A s \in Seats :
       (seat[s].state = PAYMENT_PENDING /\ seat'[s].state = PAYMENT_PENDING)
         => seat'[s].pend = seat[s].pend]_vars

\* C37: the two lifecycle fields of a SeatLock agree.  status is completed
\* exactly when numericState is PAYMENT_SUCCESS; numericState TIMEOUT implies
\* status cancelled; and status cancelled implies numericState is neither
\* IN_PAYMENT_GATEWAY nor PAYMENT_SUCCESS.
C37_LifecycleFieldsAgree ==
  \A r \in Creators : lock[r].exists =>
    /\ (lock[r].status = COMPLETED) <=> (lock[r].numericState = PAYMENT_SUCCESS)
    /\ (lock[r].numericState = TIMEOUT) => (lock[r].status = CANCELLED)
    /\ (lock[r].status = CANCELLED)
         => lock[r].numericState \notin {IN_PAYMENT_GATEWAY, PAYMENT_SUCCESS}

\* C38: no dangling hold.  In every state in which no createReservation is
\* between its seat lock and its record save, a seat that is payment_pending
\* under reservation id R has an existing SeatLock R with status
\* pending_payment whose seatIds contain the seat.
NoCreateInProgress == \A p \in Creators : cr[p].pc \in {"idle", "done"}

C38_NoDanglingHold ==
  NoCreateInProgress =>
    \A s \in Seats : \A r \in Creators :
      seat[s] = HeldBy(r)
        => /\ lock[r].exists
           /\ lock[r].status = PENDING_PAYMENT
           /\ s \in Range(lock[r].seatIds)

====
